---- MODULE Spec2Model ----
(***************************************************************************)
(* Model of server.js: the GET /api/bloom-data handler and the synthetic   *)
(* bloom-data generator it calls.                                          *)
(*                                                                         *)
(* JavaScript numbers are modelled as exact rationals [n |-> num, d |-> den]*)
(* in lowest terms with d > 0, plus NaN == 0/0.  JavaScript strings are    *)
(* sequences of one-character strings.  Math.random() is a seeded          *)
(* pseudo-random generator whose hidden state lives in the variable rng.   *)
(***************************************************************************)
EXTENDS Integers, Sequences, FiniteSets, TLC

(* ------------------------------ bounds -------------------------------- *)
\* Math.random() yields k/RandDenom for k < RandDenom - 1, and, in its last
\* generator state, (RandTop - 1)/RandTop, a value next to 1.
RandDenom == 4
RandTop == 256

(* --------------------------- JS numbers -------------------------------- *)
RECURSIVE GCD(_, _)
GCD(a, b) == IF b = 0 THEN a ELSE GCD(b, a % b)

AbsInt(i) == IF i < 0 THEN -i ELSE i

NaN == [n |-> 0, d |-> 0]
isNaN(x) == x.d = 0
Num(i) == [n |-> i, d |-> 1]

\* the rational num/den (den # 0) in lowest terms with a positive denominator
Rat(num, den) ==
    LET g == GCD(AbsInt(num), AbsInt(den))
        s == IF den < 0 THEN -1 ELSE 1
    IN  [n |-> s * (num \div g), d |-> s * (den \div g)]

NumAdd(a, b) == IF isNaN(a) \/ isNaN(b) THEN NaN
                ELSE Rat(a.n * b.d + b.n * a.d, a.d * b.d)
NumSub(a, b) == IF isNaN(a) \/ isNaN(b) THEN NaN
                ELSE Rat(a.n * b.d - b.n * a.d, a.d * b.d)
NumMul(a, b) == IF isNaN(a) \/ isNaN(b) THEN NaN
                ELSE LET g1 == GCD(AbsInt(a.n), b.d)
                         g2 == GCD(AbsInt(b.n), a.d)
                     IN  Rat((a.n \div g1) * (b.n \div g2), (a.d \div g2) * (b.d \div g1))
\* division by a non-zero number
NumDiv(a, b) == IF isNaN(a) \/ isNaN(b) THEN NaN
                ELSE NumMul(a, Rat(b.d, b.n))

\* a < b; every comparison with NaN is false.  Compared by integer parts and
\* then by the reciprocals of the fractional parts, so no product is formed.
RECURSIVE RatLT(_, _)
RatLT(a, b) ==
    LET qa == a.n \div a.d
        qb == b.n \div b.d
        ra == a.n % a.d
        rb == b.n % b.d
    IN  IF qa # qb THEN qa < qb
        ELSE IF rb = 0 THEN FALSE
        ELSE IF ra = 0 THEN TRUE
        ELSE RatLT([n |-> b.d, d |-> rb], [n |-> a.d, d |-> ra])
NumLT(a, b) == ~isNaN(a) /\ ~isNaN(b) /\ RatLT(a, b)
NumLE(a, b) == ~isNaN(a) /\ ~isNaN(b) /\ ~RatLT(b, a)

MathAbs(x) == IF isNaN(x) THEN NaN ELSE [n |-> AbsInt(x.n), d |-> x.d]
MathFloor(x) == IF isNaN(x) THEN NaN ELSE Num(x.n \div x.d)
MathCeil(x) == IF isNaN(x) THEN NaN ELSE Num(-((-x.n) \div x.d))

\* Math.floor(r * m) for an integer-valued m, computed without forming r.n * m.n
FloorOfProduct(r, m) ==
    IF isNaN(r) \/ isNaN(m) THEN NaN
    ELSE Num(r.n * (m.n \div r.d) + (r.n * (m.n % r.d)) \div r.d)

(* --------------------------- JS strings -------------------------------- *)
\* the value of a query parameter that is absent from the URL
Undefined == <<"undefined">>

Digits == <<"0", "1", "2", "3", "4", "5", "6", "7", "8", "9">>
IsDigit(c) == \E i \in 1..10 : Digits[i] = c
DigitVal(c) == (CHOOSE i \in 1..10 : Digits[i] = c) - 1
DigitChar(i) == Digits[i + 1]

\* the number of digits of s from position i on
RECURSIVE DigitRun(_, _)
DigitRun(s, i) == IF i <= Len(s) /\ IsDigit(s[i]) THEN 1 + DigitRun(s, i + 1) ELSE 0

\* the value of the k digits of s that start at position i
RECURSIVE DigitsValue(_, _, _)
DigitsValue(s, i, k) ==
    IF k = 0 THEN 0 ELSE 10 * DigitsValue(s, i, k - 1) + DigitVal(s[i + k - 1])

RECURSIVE Pow10(_)
Pow10(k) == IF k = 0 THEN 1 ELSE 10 * Pow10(k - 1)

\* parseFloat: the longest prefix that is a decimal literal (sign, digits,
\* fraction), after leading blanks; NaN when that prefix holds no digit.
RECURSIVE BlankRun(_, _)
BlankRun(s, i) == IF i <= Len(s) /\ s[i] = " " THEN 1 + BlankRun(s, i + 1) ELSE 0

parseFloat(s) ==
    IF s = Undefined THEN NaN
    ELSE
    LET p0 == 1 + BlankRun(s, 1)
        signed == p0 <= Len(s) /\ s[p0] \in {"-", "+"}
        sign == IF signed /\ s[p0] = "-" THEN -1 ELSE 1
        p1 == IF signed THEN p0 + 1 ELSE p0
        intLen == DigitRun(s, p1)
        p2 == p1 + intLen
        hasDot == p2 <= Len(s) /\ s[p2] = "."
        fracLen == IF hasDot THEN DigitRun(s, p2 + 1) ELSE 0
    IN  IF intLen + fracLen = 0 THEN NaN
        ELSE Rat(sign * (DigitsValue(s, p1, intLen) * Pow10(fracLen)
                         + DigitsValue(s, p2 + 1, fracLen)),
                 Pow10(fracLen))

(* ------------------------------ Date ----------------------------------- *)
msPerDay == 86400000

\* the day number (days since 1970-01-01) of a date of the proleptic Gregorian calendar
DaysFromCivil(y, m, d) ==
    LET yy == IF m <= 2 THEN y - 1 ELSE y
        era == yy \div 400
        yoe == yy - era * 400
        mp == (m + 9) % 12
        doy == (153 * mp + 2) \div 5 + d - 1
        doe == yoe * 365 + yoe \div 4 - yoe \div 100 + doy
    IN  era * 146097 + doe - 719468

\* the date <<year, month, day>> of a day number
CivilFromDays(z) ==
    LET zz == z + 719468
        era == zz \div 146097
        doe == zz - era * 146097
        yoe == (doe - doe \div 1460 + doe \div 36524 - doe \div 146096) \div 365
        doy == doe - (365 * yoe + yoe \div 4 - yoe \div 100)
        mp == (5 * doy + 2) \div 153
        d == doy - (153 * mp + 2) \div 5 + 1
        m == IF mp < 10 THEN mp + 3 ELSE mp - 9
        y == yoe + era * 400
    IN  <<IF m <= 2 THEN y + 1 ELSE y, m, d>>

IsLeap(y) == (y % 4 = 0 /\ y % 100 # 0) \/ y % 400 = 0
DaysInMonth(y, m) ==
    IF m = 2 THEN (IF IsLeap(y) THEN 29 ELSE 28)
    ELSE IF m \in {4, 6, 9, 11} THEN 30 ELSE 31

\* s has the date-only ISO form YYYY-MM-DD
IsDateForm(s) ==
    /\ s # Undefined
    /\ Len(s) = 10
    /\ s[5] = "-" /\ s[8] = "-"
    /\ \A i \in {1, 2, 3, 4, 6, 7, 9, 10} : IsDigit(s[i])

\* new Date(str).getTime(): UTC midnight of a date-only ISO string, NaN
\* (an Invalid Date) for anything else
DateParse(s) ==
    IF ~IsDateForm(s) THEN NaN
    ELSE LET y == DigitsValue(s, 1, 4)
             m == DigitsValue(s, 6, 2)
             d == DigitsValue(s, 9, 2)
         IN  IF m \in 1..12 /\ d \in 1..DaysInMonth(y, m)
             THEN Num(DaysFromCivil(y, m, d) * msPerDay)
             ELSE NaN

\* k decimal digits of the natural number v
RECURSIVE Pad(_, _)
Pad(v, k) == IF k = 0 THEN <<>> ELSE Append(Pad(v \div 10, k - 1), DigitChar(v % 10))

\* Date.prototype.toISOString of a valid time value t (years 0000..9999)
toISOString(t) ==
    LET day == t.n \div msPerDay
        ms == t.n % msPerDay
        ymd == CivilFromDays(day)
    IN  Pad(ymd[1], 4) \o <<"-">> \o Pad(ymd[2], 2) \o <<"-">> \o Pad(ymd[3], 2)
        \o <<"T">> \o Pad(ms \div 3600000, 2) \o <<":">> \o Pad((ms \div 60000) % 60, 2)
        \o <<":">> \o Pad((ms \div 1000) % 60, 2) \o <<".">> \o Pad(ms % 1000, 3) \o <<"Z">>

\* s.split(sep)[0]: s up to its first sep
RECURSIVE SplitFirst(_, _)
SplitFirst(s, sep) ==
    IF s = <<>> \/ Head(s) = sep THEN <<>> ELSE <<Head(s)>> \o SplitFirst(Tail(s), sep)

(* --------------------------- Math.random ------------------------------- *)
\* The hidden generator state is [x, c]: the next draw is decided by x, and
\* each draw moves x on by the stride c fixed at start-up.
RngStates == [x : 0..(RandDenom - 1), c : 0..(RandDenom - 1)]

\* the value in [0, 1) the generator yields in state x
RandomValue(x) ==
    IF x = RandDenom - 1 THEN Rat(RandTop - 1, RandTop) ELSE Rat(x, RandDenom)

\* the value of the j-th call of Math.random() from generator state g on (j = 0 is next)
MathRandom(g, j) == RandomValue((g.x + j * g.c) % RandDenom)

\* the generator state after k calls
RngAfter(g, k) == [g EXCEPT !.x = (g.x + k * g.c) % RandDenom]

(* ------------------------------ helpers -------------------------------- *)
\* getRandomFloat(min, max), r being the value its Math.random() call yields
getRandomFloat(min, max, r) == NumAdd(NumMul(r, NumSub(max, min)), min)

\* getRandomInt with a range one too wide: max - min + 2
getRandomInt_wide(min, max, r) ==
    LET lo == MathCeil(min)
        hi == MathFloor(max)
    IN  NumAdd(FloorOfProduct(r, NumAdd(NumSub(hi, lo), Num(2))), lo)

\* getRandomInt rounding the scaled draw up: Math.ceil in place of Math.floor
getRandomInt_ceil(min, max, r) ==
    LET lo == MathCeil(min)
        hi == MathFloor(max)
        n == NumAdd(NumSub(hi, lo), Num(1))
        down == FloorOfProduct(r, NumSub(Num(0), n))
    IN  NumAdd(NumSub(Num(0), down), lo)

\* getRandomInt(min, max), r being the value its Math.random() call yields
getRandomInt(min, max, r) ==
    LET lo == MathCeil(min)
        hi == MathFloor(max)
    IN  NumAdd(FloorOfProduct(r, NumAdd(NumSub(hi, lo), Num(1))), lo)

\* arr[idx] of a JS array literal: undefined outside 0..length-1
ArrayGet(arr, idx) ==
    IF ~isNaN(idx) /\ idx.d = 1 /\ idx.n \in 0..(Len(arr) - 1) THEN arr[idx.n + 1] ELSE Undefined

Trends == << <<"e","a","r","l","i","e","r">>, <<"s","t","a","b","l","e">>, <<"l","a","t","e","r">> >>
Predictions == << <<"s","i","g","n","i","f","i","c","a","n","t">>, <<"m","o","d","e","r","a","t","e">>,
                  <<"s","l","i","g","h","t">>, <<"n","o","_","c","h","a","n","g","e">> >>

MinPoints == 150
MaxPoints == 350

(* ------------------------------ requests ------------------------------- *)
LatValues == {Undefined, <<"a","b","c">>, <<"-","8","8">>}
LonValues == {<<>>, <<"x">>, <<"2","0",".","5">>}
RadiusValues == {Undefined, <<"k","m">>, <<"0">>, <<"4","k","m">>, <<"-","1">>}
DateValues == {Undefined, <<"a","b","c">>,
               <<"1","9","6","9","-","1","2","-","3","0">>,
               <<"1","9","7","0","-","0","1","-","0","2">>}

\* req.query of the requests the model sends
Queries == [lat : LatValues, lon : LonValues, radius : RadiusValues,
            startDate : DateValues, endDate : DateValues]

\* !v for a query parameter: true of undefined and of the empty string
Not(v) == v = Undefined \/ v = <<>>

MissingMsg == "Missing required query parameters. Required: lat, lon, radius, startDate, endDate."
InvalidMsg == "Invalid geographic parameters. lat, lon, and radius must be numbers."
ThrownMsg == "RangeError: Invalid time value"

NoResponse == [status |-> 0]
NoQuery == [lat |-> Undefined, lon |-> Undefined, radius |-> Undefined,
            startDate |-> Undefined, endDate |-> Undefined]

(* ------------------------------- state --------------------------------- *)
VARIABLES
    pc,              \* "idle": waiting for a request; "loop": inside generateBloomData;
                     \* "sent": the handler has answered and returned
    query,           \* req.query of the latest request
    res,             \* the response to it: NoResponse until it is sent
    rng,             \* hidden state of Math.random
    numberOfPoints, minLat, maxLat, minLon, maxLon, startDate, endDate,
    i, features      \* locals of generateBloomData

vars == <<pc, query, res, rng, numberOfPoints, minLat, maxLat, minLon, maxLon,
          startDate, endDate, i, features>>
locals == <<numberOfPoints, minLat, maxLat, minLon, maxLon, startDate, endDate, i, features>>

\* the locals outside a call of generateBloomData
NoCall ==
    /\ numberOfPoints' = NaN /\ minLat' = NaN /\ maxLat' = NaN /\ minLon' = NaN
    /\ maxLon' = NaN /\ startDate' = NaN /\ endDate' = NaN /\ i' = 0 /\ features' = <<>>

Init ==
    /\ pc = "idle" /\ query = NoQuery /\ res = NoResponse
    /\ rng \in RngStates
    /\ numberOfPoints = NaN /\ minLat = NaN /\ maxLat = NaN /\ minLon = NaN
    /\ maxLon = NaN /\ startDate = NaN /\ endDate = NaN /\ i = 0 /\ features = <<>>

\* the missing-parameter check without endDate
MissingParams_noEndDate(q) ==
    Not(q.lat) \/ Not(q.lon) \/ Not(q.radius) \/ Not(q.startDate)

\* line 100: the condition of the missing-parameter check
MissingParams(q) ==
    Not(q.lat) \/ Not(q.lon) \/ Not(q.radius) \/ Not(q.startDate) \/ Not(q.endDate)

\* the number check without radius
InvalidNumbers_noRadius(q) ==
    isNaN(parseFloat(q.lat)) \/ isNaN(parseFloat(q.lon))

\* lines 106-111: the condition of the number check
InvalidNumbers(q) ==
    isNaN(parseFloat(q.lat)) \/ isNaN(parseFloat(q.lon)) \/ isNaN(parseFloat(q.radius))

\* lines 100-104: a parameter is missing
GetMissing(q) ==
    /\ pc = "idle"
    /\ MissingParams(q)
    /\ query' = q
    /\ res' = [status |-> 400, body |-> [error |-> MissingMsg]]
    /\ pc' = "sent"
    /\ UNCHANGED <<rng, locals>>

\* lines 106-113: lat, lon or radius is not a number
GetInvalid(q) ==
    /\ pc = "idle"
    /\ ~MissingParams(q)
    /\ InvalidNumbers(q)
    /\ query' = q
    /\ res' = [status |-> 400, body |-> [error |-> InvalidMsg]]
    /\ pc' = "sent"
    /\ UNCHANGED <<rng, locals>>

\* lines 123 and 46-58: the handler calls generateBloomData, which sets up its locals
GetGenerate(q) ==
    /\ pc = "idle"
    /\ ~MissingParams(q)
    /\ ~InvalidNumbers(q)
    /\ LET lat == parseFloat(q.lat)
           lon == parseFloat(q.lon)
           radius == parseFloat(q.radius)
       IN  /\ features' = <<>>
           /\ numberOfPoints' = getRandomInt(Num(MinPoints), Num(MaxPoints), MathRandom(rng, 0))
           /\ minLat' = NumSub(lat, radius)
           /\ maxLat' = NumAdd(lat, radius)
           /\ minLon' = NumSub(lon, radius)
           /\ maxLon' = NumAdd(lon, radius)
           /\ startDate' = DateParse(q.startDate)
           /\ endDate' = DateParse(q.endDate)
           /\ i' = 0
    /\ rng' = RngAfter(rng, 1)
    /\ query' = q
    /\ res' = NoResponse
    /\ pc' = "loop"

\* the random timestamp drawn from the epoch on, the start date forgotten
RandomTimestamp_fromEpoch(g) == getRandomInt(Num(0), endDate, MathRandom(g, 2))

\* line 65: the time value of randomDate in the iteration run from generator state g
RandomTimestamp(g) == getRandomInt(startDate, endDate, MathRandom(g, 2))

\* line 70
LatitudeFactor(pointLat) == NumDiv(NumSub(Num(90), MathAbs(pointLat)), Num(90))

\* the intensity without the equator bias
Intensity_unbiased(r, latitudeFactor) == r

\* line 71, r being the value its Math.random() call yields
Intensity(r, latitudeFactor) == NumMul(r, latitudeFactor)

\* the coordinates with the latitude first
Coordinates_latFirst(pointLon, pointLat) == <<pointLat, pointLon>>

\* line 77
Coordinates(pointLon, pointLat) == <<pointLon, pointLat>>

\* line 84: the calendar day of a valid time value, as YYYY-MM-DD
DateString(t) == SplitFirst(toISOString(t), "T")

\* lines 61-86: the feature one loop iteration builds from generator state g,
\* randomDate being valid
Feature(g) ==
    LET pointLat == getRandomFloat(minLat, maxLat, MathRandom(g, 0))
        pointLon == getRandomFloat(minLon, maxLon, MathRandom(g, 1))
        randomTimestamp == RandomTimestamp(g)
        latitudeFactor == LatitudeFactor(pointLat)
        intensity == Intensity(MathRandom(g, 3), latitudeFactor)
    IN  [type |-> "Feature",
         geometry |-> [type |-> "Point", coordinates |-> Coordinates(pointLon, pointLat)],
         properties |-> [intensity |-> intensity,
                         trend |-> ArrayGet(Trends, getRandomInt(Num(0), Num(2), MathRandom(g, 4))),
                         prediction |-> ArrayGet(Predictions, getRandomInt(Num(0), Num(3), MathRandom(g, 5))),
                         date |-> DateString(randomTimestamp)]]

\* lines 60-88: one iteration of the loop
LoopBody ==
    /\ pc = "loop"
    /\ NumLT(Num(i), numberOfPoints)
    /\ ~isNaN(RandomTimestamp(rng))
    /\ features' = Append(features, Feature(rng))
    /\ i' = i + 1
    /\ rng' = RngAfter(rng, 6)
    /\ UNCHANGED <<pc, query, res, numberOfPoints, minLat, maxLat, minLon, maxLon,
                   startDate, endDate>>

\* line 84: toISOString of an Invalid Date throws a RangeError, which leaves
\* generateBloomData and the handler; the framework answers 500
LoopThrow ==
    /\ pc = "loop"
    /\ NumLT(Num(i), numberOfPoints)
    /\ isNaN(RandomTimestamp(rng))
    /\ rng' = RngAfter(rng, 6)
    /\ res' = [status |-> 500, body |-> [error |-> ThrownMsg]]
    /\ pc' = "sent"
    /\ UNCHANGED <<query, locals>>

\* lines 89 and 124: the loop is over, the collection is returned and sent
Return ==
    /\ pc = "loop"
    /\ ~NumLT(Num(i), numberOfPoints)
    /\ res' = [status |-> 200, body |-> [type |-> "FeatureCollection", features |-> features]]
    /\ pc' = "sent"
    /\ UNCHANGED <<query, rng, locals>>

\* the request is over: its query, its response and the locals of the call are
\* dropped and the server waits for the next request
Listen ==
    /\ pc = "sent"
    /\ pc' = "idle" /\ query' = NoQuery /\ res' = NoResponse
    /\ NoCall
    /\ UNCHANGED rng

Next ==
    \/ \E q \in Queries : GetMissing(q)
    \/ \E q \in Queries : GetInvalid(q)
    \/ \E q \in Queries : GetGenerate(q)
    \/ LoopBody
    \/ LoopThrow
    \/ Return
    \/ Listen

Spec == Init /\ [][Next]_vars

(* ===================== properties of the program ====================== *)
\* a query parameter that carries no value: not in the URL, or empty
Absent(v) == v = Undefined \/ v = <<>>
AnyAbsent(q) ==
    Absent(q.lat) \/ Absent(q.lon) \/ Absent(q.radius) \/ Absent(q.startDate) \/ Absent(q.endDate)

\* s starts with a decimal number: an optional sign, then a digit or a point and a digit
StartsWithNumber(s) ==
    LET t == IF Len(s) >= 1 /\ s[1] \in {"+", "-"} THEN Tail(s) ELSE s
    IN  /\ Len(t) >= 1
        /\ IsDigit(t[1]) \/ (t[1] = "." /\ Len(t) >= 2 /\ IsDigit(t[2]))
AllNumeric(q) ==
    StartsWithNumber(q.lat) /\ StartsWithNumber(q.lon) /\ StartsWithNumber(q.radius)

\* the request has been answered with a collection; its observations
Returned == pc = "sent" /\ res.status = 200
Observations == res.body.features
Latitude(f) == f.geometry.coordinates[2]
Longitude(f) == f.geometry.coordinates[1]

centerLat == parseFloat(query.lat)
centerLon == parseFloat(query.lon)
centerRadius == parseFloat(query.radius)

\* C1: every returned collection holds between 150 and 350 observations, and
\* the count the generator draws is an integer in that range.
C1_CountInRange ==
    /\ Returned => Len(Observations) \in 150..350
    /\ pc = "loop" => (numberOfPoints.d = 1 /\ numberOfPoints.n \in 150..350)

\* a collection of the largest size, 350, is returned
C1_Witness == Returned /\ Len(Observations) = 350

\* C2: the generator never throws: no request ends in an exception that
\* escaped generateBloomData.
C2_NeverThrows == ~(pc = "sent" /\ res.status = 500)

\* C3: the intensity of every returned observation is in [0, 1).
C3_IntensityInUnitInterval ==
    Returned =>
        \A k \in 1..Len(Observations) :
            LET x == Observations[k].properties.intensity
            IN  NumLE(Num(0), x) /\ NumLT(x, Num(1))

\* C4 as stated: every returned observation with |latitude| <= 90 has an
\* intensity strictly below (90 - |latitude|)/90.
C4_StrictBound ==
    Returned =>
        \A k \in 1..Len(Observations) :
            LET f == Observations[k]
                bound == NumDiv(NumSub(Num(90), MathAbs(Latitude(f))), Num(90))
            IN  NumLE(MathAbs(Latitude(f)), Num(90)) => NumLT(f.properties.intensity, bound)

\* C4 amended: every returned observation with |latitude| < 90 has an intensity
\* strictly below (90 - |latitude|)/90 and at least 0; at |latitude| = 90 the
\* intensity equals that bound, 0.
C4_BoundBelowPole ==
    Returned =>
        \A k \in 1..Len(Observations) :
            LET f == Observations[k]
                bound == NumDiv(NumSub(Num(90), MathAbs(Latitude(f))), Num(90))
            IN  /\ NumLT(MathAbs(Latitude(f)), Num(90)) =>
                      (NumLE(Num(0), f.properties.intensity) /\ NumLT(f.properties.intensity, bound))
                /\ MathAbs(Latitude(f)) = Num(90) => f.properties.intensity = Num(0)

\* a collection with an observation at |latitude| = 90 and one below 90 whose
\* intensity is positive
C4_Witness ==
    /\ Returned
    /\ \E k \in 1..Len(Observations) : MathAbs(Latitude(Observations[k])) = Num(90)
    /\ \E k \in 1..Len(Observations) :
          /\ NumLT(MathAbs(Latitude(Observations[k])), Num(90))
          /\ NumLT(Num(0), Observations[k].properties.intensity)

\* C5: with radius >= 0, every returned observation has its longitude first and
\* its latitude second, each within radius of the center; with radius = 0 every
\* point is the center.
C5_PointsInBox ==
    (Returned /\ NumLE(Num(0), centerRadius)) =>
        \A k \in 1..Len(Observations) :
            LET f == Observations[k]
            IN  /\ Len(f.geometry.coordinates) = 2
                /\ NumLE(NumSub(centerLat, centerRadius), Latitude(f))
                /\ NumLE(Latitude(f), NumAdd(centerLat, centerRadius))
                /\ NumLE(NumSub(centerLon, centerRadius), Longitude(f))
                /\ NumLE(Longitude(f), NumAdd(centerLon, centerRadius))
                /\ centerRadius = Num(0) => (Latitude(f) = centerLat /\ Longitude(f) = centerLon)

\* a collection for a positive radius with a point on the lower edge of the box
\* and another point strictly inside it
C5_Witness ==
    /\ Returned
    /\ NumLT(Num(0), centerRadius)
    /\ \E k \in 1..Len(Observations) :
          Latitude(Observations[k]) = NumSub(centerLat, centerRadius)
    /\ \E k \in 1..Len(Observations) :
          /\ NumLT(NumSub(centerLat, centerRadius), Latitude(Observations[k]))
          /\ NumLT(NumSub(centerLon, centerRadius), Longitude(Observations[k]))

\* s1 <= s2 in the order of JS string comparison, for strings of digits and "-"
CharCode(c) == IF c = "-" THEN 45 ELSE 48 + DigitVal(c)
RECURSIVE StrLE(_, _)
StrLE(s1, s2) ==
    IF s1 = <<>> THEN TRUE
    ELSE IF s2 = <<>> THEN FALSE
    ELSE IF CharCode(Head(s1)) # CharCode(Head(s2)) THEN CharCode(Head(s1)) < CharCode(Head(s2))
    ELSE StrLE(Tail(s1), Tail(s2))

\* s is a date YYYY-MM-DD of the calendar
IsCalendarDate(s) ==
    /\ IsDateForm(s)
    /\ DigitsValue(s, 6, 2) \in 1..12
    /\ DigitsValue(s, 9, 2) \in 1..DaysInMonth(DigitsValue(s, 1, 4), DigitsValue(s, 6, 2))

OrderedDates ==
    /\ IsCalendarDate(query.startDate) /\ IsCalendarDate(query.endDate)
    /\ StrLE(query.startDate, query.endDate)

\* C6: with startDate <= endDate, every returned date is a YYYY-MM-DD string
\* between the two (equal to them when they are equal), and every random
\* timestamp lies between their epoch-millisecond values.
C6_DatesInRange ==
    /\ (Returned /\ OrderedDates) =>
          \A k \in 1..Len(Observations) :
              LET date == Observations[k].properties.date
              IN  /\ IsDateForm(date)
                  /\ StrLE(query.startDate, date)
                  /\ StrLE(date, query.endDate)
    /\ (pc = "loop" /\ NumLT(Num(i), numberOfPoints) /\ OrderedDates) =>
          /\ NumLE(startDate, RandomTimestamp(rng))
          /\ NumLE(RandomTimestamp(rng), endDate)

\* a collection for startDate < endDate with a date strictly between the two
C6_Witness ==
    /\ Returned /\ OrderedDates
    /\ \E k \in 1..Len(Observations) :
          LET date == Observations[k].properties.date
          IN  ~StrLE(date, query.startDate) /\ ~StrLE(query.endDate, date)

\* C7: a request with a missing parameter is answered 400 with the
\* missing-parameter message, whatever the other parameters are, and the
\* generator is not entered for it.
C7_MissingRejected ==
    (pc # "idle" /\ AnyAbsent(query)) =>
        /\ pc = "sent"
        /\ res = [status |-> 400, body |-> [error |-> MissingMsg]]
        /\ features = <<>>

\* a request with an empty parameter and a non-numeric one has been answered
C7_Witness ==
    /\ pc = "sent" /\ query.lon = <<>> /\ ~Absent(query.lat) /\ ~StartsWithNumber(query.lat)

\* C8: a request with all parameters present and a non-numeric lat, lon or
\* radius is answered 400 with the invalid-number message without entering the
\* generator; a request whose three numbers parse never gets that message.
C8_InvalidRejected ==
    /\ (pc # "idle" /\ ~AnyAbsent(query) /\ ~AllNumeric(query)) =>
          /\ pc = "sent"
          /\ res = [status |-> 400, body |-> [error |-> InvalidMsg]]
          /\ features = <<>>
    /\ (pc = "sent" /\ AllNumeric(query) /\ res.status # 200) => res.body.error # InvalidMsg

\* a request whose only fault is a non-numeric radius has been answered
C8_Witness ==
    /\ pc = "sent" /\ ~AnyAbsent(query)
    /\ StartsWithNumber(query.lat) /\ StartsWithNumber(query.lon)
    /\ ~StartsWithNumber(query.radius)

TrendNames == { <<"e","a","r","l","i","e","r">>, <<"s","t","a","b","l","e">>, <<"l","a","t","e","r">> }
PredictionNames == { <<"s","i","g","n","i","f","i","c","a","n","t">>, <<"m","o","d","e","r","a","t","e">>,
                     <<"s","l","i","g","h","t">>, <<"n","o","_","c","h","a","n","g","e">> }

\* C9: the trend and the prediction of every returned observation are members
\* of their category lists.
C9_CategoriesValid ==
    Returned =>
        \A k \in 1..Len(Observations) :
            /\ Observations[k].properties.trend \in TrendNames
            /\ Observations[k].properties.prediction \in PredictionNames

\* a collection with the last trend and the last prediction of the lists
C9_Witness ==
    /\ Returned
    /\ \E k \in 1..Len(Observations) :
          Observations[k].properties.trend = <<"l","a","t","e","r">>
    /\ \E k \in 1..Len(Observations) :
          Observations[k].properties.prediction = <<"n","o","_","c","h","a","n","g","e">>

\* C10: every call of the generator ends after exactly count iterations,
\* count <= 350, by returning the count observations in the order they were made.
C10_ReturnsAllInOrder ==
    /\ (pc = "sent" /\ ~AnyAbsent(query) /\ AllNumeric(query)) =>
          /\ res.status = 200
          /\ Num(i) = numberOfPoints /\ i <= 350
          /\ Len(features) = i
          /\ Observations = features
    /\ pc = "loop" => (Len(features) = i /\ NumLE(Num(i), numberOfPoints))

====
